---------------------------- MODULE Spec2Model ----------------------------
(***************************************************************************)
(* Model of langchain/chains/summarization.py: the InlineSummarizer, its   *)
(* prompt builder (_get_prompt), the blocking and the suspending           *)
(* summarization node, and the one-node graph assembled by build().        *)
(*                                                                         *)
(* Python values are tagged records: the field "type" is the value's       *)
(* Python type.  A Python str is a sequence of one-character strings, so   *)
(* that concatenation and joining are computed, not assumed.               *)
(***************************************************************************)
EXTENDS Integers, Sequences, FiniteSets, TLC

(***************************************************************************)
(* Bounds of the model.                                                    *)
(***************************************************************************)
\* Longest document list handed to the prompt builder in BuilderSpec.
MaxDocs == 3
\* Number of runs of the assembled workflow that may be in flight in Spec.
MaxRuns == 2
\* Longest document list a workflow run is invoked with in Spec.
MaxRunDocs == 1

Runs == 1..MaxRuns

(***************************************************************************)
(* Python values.                                                          *)
(***************************************************************************)
PyNone == [type |-> "NoneType"]
PyStr(s) == [type |-> "str", val |-> s]
PyInt(n) == [type |-> "int", num |-> n]
PyList(xs) == [type |-> "list", items |-> xs]
\* A message given as a dict with the keys "role" and "content".
PyMessage(r, c) == [type |-> "dict", role |-> r, content |-> c]
\* langchain_core.documents.Document, of which the code reads page_content.
Document(c) == [page_content |-> c]
\* The result of a call: a returned value or a raised exception.
Return(v) == [kind |-> "return", value |-> v]
Raise(e) == [kind |-> "raise", error |-> e]
\* A dict with no keys.
EmptyDict == [k \in {} |-> <<>>]

\* The separator literal "---\n\n" of _get_prompt.
Sep == <<"-", "-", "-", "\n", "\n">>

\* The default system instruction of _get_prompt (three adjacent literals).
DefaultSystemText ==
  <<"Y", "o", "u", " ", "a", "r", "e", " ", "a", " ", "h", "e", "l", "p",
    "f", "u", "l", " ", "a", "s", "s", "i", "s", "t", "a", "n", "t", " ",
    "t", "h", "a", "t", " ", "s", "u", "m", "m", "a", "r", "i", "z", "e",
    "s", " ", "t", "e", "x", "t", ".", " ", "P", "l", "e", "a", "s", "e",
    " ", "p", "r", "o", "v", "i", "d", "e", " ", "a", " ", "c", "o", "n",
    "c", "i", "s", "e", " ", "s", "u", "m", "m", "a", "r", "y", " ", "o",
    "f", " ", "t", "h", "e", " ", "d", "o", "c", "u", "m", "e", "n", "t",
    "s", " ", "p", "r", "o", "v", "i", "d", "e", "d", " ", "b", "y", " ",
    "t", "h", "e", " ", "u", "s", "e", "r", ".">>

(***************************************************************************)
(* str.join: the items in order, the separator before every item but the   *)
(* first.                                                                  *)
(***************************************************************************)
RECURSIVE JoinFrom(_, _, _, _)
JoinFrom(sep, items, i, acc) ==
  IF i > Len(items) THEN acc
  ELSE JoinFrom(sep, items, i + 1,
                (IF i = 1 THEN acc ELSE acc \o sep) \o items[i])

\* A join that writes the separator after every item (mutant of StrJoin).
RECURSIVE JoinTrailing(_, _, _, _)
JoinTrailing(sep, items, i, acc) ==
  IF i > Len(items) THEN acc
  ELSE JoinTrailing(sep, items, i + 1, acc \o items[i] \o sep)

StrJoinTrailingSep(sep, items) == JoinTrailing(sep, items, 1, <<>>)

StrJoin(sep, items) == JoinFrom(sep, items, 1, <<>>)

\* The generator (doc.page_content for doc in state["documents"]).
PageContents(docs) == [i \in 1..Len(docs) |-> docs[i].page_content]

(***************************************************************************)
(* InlineSummarizer._get_prompt.  The system message is built as a         *)
(* one-element list, and that list is the first element of the result.     *)
(***************************************************************************)
\* A variant that tests the prompt's truth value (mutant of DefaultSystem).
DefaultSystemFalsy(p) ==
  IF p.type = "NoneType" \/ (p.type = "str" /\ p.val = <<>>)
  THEN Return(PyList(<<PyMessage("system", DefaultSystemText)>>))
  ELSE IF p.type = "str"
  THEN Return(PyList(<<PyMessage("system", p.val)>>))
  ELSE Raise("TypeError")

\* A variant that lets any prompt through as text (mutant of DefaultSystem).
DefaultSystemCoerce(p) ==
  IF p.type = "NoneType"
  THEN Return(PyList(<<PyMessage("system", DefaultSystemText)>>))
  ELSE IF p.type = "str"
  THEN Return(PyList(<<PyMessage("system", p.val)>>))
  ELSE Return(PyList(<<PyMessage("system", <<"4", "2">>)>>))

\* The branch on self.prompt: the list default_system, or the TypeError.
DefaultSystem(p) ==
  IF p.type = "NoneType"
  THEN Return(PyList(<<PyMessage("system", DefaultSystemText)>>))
  ELSE IF p.type = "str"
  THEN Return(PyList(<<PyMessage("system", p.val)>>))
  ELSE Raise("TypeError")

InlinedDocs(st) == StrJoin(Sep, PageContents(st.documents))

GetPrompt(p, st) ==
  LET default_system == DefaultSystem(p) IN
  IF default_system.kind = "raise" THEN default_system
  ELSE Return(<<default_system.value, PyMessage("user", InlinedDocs(st))>>)


(***************************************************************************)
(* The bound model (self.model).  It is an external collaborator; the      *)
(* model kinds below are deterministic stubs of it: the response is a      *)
(* function of the message sequence received.                              *)
(***************************************************************************)
AIMessage(t) == [type |-> "AIMessage", text |-> t]
FixedText == <<"S">>

ModelKinds == {"fixed", "echo", "raises", "notext", "strict"}

\* Whether every element of the message sequence is a role/content dict.
AllDictMessages(msgs) == \A i \in 1..Len(msgs) : msgs[i].type = "dict"

ModelRespond(m, msgs) ==
  CASE m = "fixed"  -> Return(AIMessage(FixedText))
    [] m = "echo"   -> Return(AIMessage(msgs[Len(msgs)].content))
    [] m = "raises" -> Raise("ModelInvocationError")
    [] m = "notext" -> Return(PyNone)
    [] m = "strict" -> IF AllDictMessages(msgs)
                       THEN Return(AIMessage(FixedText))
                       ELSE Raise("NotImplementedError")

\* self.model.invoke(prompt) and await self.model.ainvoke(prompt).
ModelInvoke(m, msgs) == ModelRespond(m, msgs)
ModelAInvoke(m, msgs) == ModelRespond(m, msgs)

\* response.text(): the response's text; a value without it raises.
ResponseText(resp) ==
  IF resp.type = "AIMessage" THEN Return(resp.text)
  ELSE Raise("AttributeError")

(***************************************************************************)
(* The summarization node.  Each form is split at its model call: the      *)
(* part before it builds the prompt and issues the call, the part after    *)
(* it turns the call's result into the node's result.                      *)
(***************************************************************************)
\* A node that calls the model twice (mutant of IssueCall).
IssueCallTwice(log, msgs) == Append(Append(log, msgs), msgs)

\* The outbound call, recorded in the run's log of calls.
IssueCall(log, msgs) == Append(log, msgs)

\* A node that replaces a failure by a fallback summary (mutant).
SummarizeNodeFinishFallback(result) ==
  IF result.kind = "raise" THEN Return([summary |-> <<>>])
  ELSE LET t == ResponseText(result.value) IN
       IF t.kind = "raise" THEN Return([summary |-> <<>>])
       ELSE Return([summary |-> t.value])

\* A node that also writes the documents back (mutant).
SummarizeNodeFinishRewrite(result) ==
  IF result.kind = "raise" THEN result
  ELSE LET t == ResponseText(result.value) IN
       IF t.kind = "raise" THEN t
       ELSE Return([summary |-> t.value, documents |-> <<>>])

\* _summarize_node after self.model.invoke: {"summary": response.text()}.
SummarizeNodeFinish(result) ==
  IF result.kind = "raise" THEN result
  ELSE LET t == ResponseText(result.value) IN
       IF t.kind = "raise" THEN t
       ELSE Return([summary |-> t.value])

\* A suspending node that swallows an extraction failure (mutant).
ASummarizeNodeFinishLenient(result) ==
  IF result.kind = "raise" THEN result
  ELSE LET t == ResponseText(result.value) IN
       IF t.kind = "raise" THEN Return([summary |-> <<>>])
       ELSE Return([summary |-> t.value])

\* _asummarize_node after await self.model.ainvoke.
ASummarizeNodeFinish(result) ==
  IF result.kind = "raise" THEN result
  ELSE LET t == ResponseText(result.value) IN
       IF t.kind = "raise" THEN t
       ELSE Return([summary |-> t.value])

(***************************************************************************)
(* The graph assembled by build(): state schema, input and output schema,  *)
(* the single node, its entry point and its edge to END.  The phases of a  *)
(* run are Start (not invoked), Summarizing (in the node) and Done (END).  *)
(***************************************************************************)
\* InputSchema: the state a run starts from holds the documents only.
InitialState(docs) == [documents |-> docs]

\* OutputSchema: the projection of the state on "summary".
OutputView(st) == [k \in (DOMAIN st) \cap {"summary"} |-> st[k]]

\* builder.set_entry_point("summarize").
EntryPoint == "Summarizing"

\* An edge that leads back into the node (mutant of EdgeFrom).
EdgeFromLoop(node) == "Summarizing"

\* builder.add_edge("summarize", END).
EdgeFrom(node) == "Done"

\* The merge of a node's update into the run's state (last value wins).
Merge(st, upd) ==
  [k \in (DOMAIN st) \cup (DOMAIN upd) |->
     IF k \in DOMAIN upd THEN upd[k] ELSE st[k]]

\* An update written into every started run's state (mutant of ApplyUpdate).
ApplyUpdateShared(sts, r, upd) ==
  [q \in DOMAIN sts |->
     IF "documents" \in DOMAIN sts[q] THEN Merge(sts[q], upd) ELSE sts[q]]

\* The update of run r is merged into the state of run r.
ApplyUpdate(sts, r, upd) == [sts EXCEPT ![r] = Merge(@, upd)]

(***************************************************************************)
(* Input sets.                                                             *)
(***************************************************************************)
\* The configured prompts: absent, the empty string, a string, and 42.
Prompts == {PyNone, PyStr(<<>>), PyStr(<<"P">>), PyInt(42)}

DocListsUpTo(n, contents) ==
  UNION {[1..k -> {Document(c) : c \in contents}] : k \in 0..n}

\* Page contents for the prompt builder; one of them is the separator.
DocContents == {<<>>, <<"A">>, <<"B">>, Sep}
\* Page contents for workflow runs.
RunContents == {<<"A">>, <<"B">>}

(***************************************************************************)
(* State.                                                                  *)
(***************************************************************************)
VARIABLES
  prompt,      \* self.prompt (line 54)
  model,       \* self.model (line 53), a model kind
  phase,       \* phase[r]: Start, Summarizing or Done (lines 117-119)
  mode,        \* mode[r]: none, blocking or suspending (lines 105-108)
  input,       \* input[r]: the documents run r was invoked with (InputSchema)
  state,       \* state[r]: the run's InlineSummarizationState (lines 20-26)
  sent,        \* sent[r]: the message sequences run r passed to the model
  update,      \* update[r]: the update returned by the node (lines 43-47)
  error,       \* error[r]: the exception the run raised, or "none"
  output,      \* output[r]: the run's output (OutputSchema, lines 36-40)
  buildState,  \* the state handed to _get_prompt in BuilderSpec
  built        \* the result of _get_prompt in BuilderSpec

runVars == <<phase, mode, input, state, sent, update, error, output>>
vars == <<prompt, model, phase, mode, input, state, sent, update, error,
          output, buildState, built>>

NotBuilt == [kind |-> "none"]

\* InlineSummarizer(model, prompt): no run has been invoked.
InitRuns ==
  /\ phase = [r \in Runs |-> "Start"]
  /\ mode = [r \in Runs |-> "none"]
  /\ input = [r \in Runs |-> <<>>]
  /\ state = [r \in Runs |-> EmptyDict]
  /\ sent = [r \in Runs |-> <<>>]
  /\ update = [r \in Runs |-> EmptyDict]
  /\ error = [r \in Runs |-> "none"]
  /\ output = [r \in Runs |-> EmptyDict]

Init ==
  /\ prompt \in Prompts
  /\ model \in ModelKinds
  /\ InitRuns
  /\ buildState = InitialState(<<>>)
  /\ built = NotBuilt

(***************************************************************************)
(* A run is invoked: the engine creates the run's state from the input,    *)
(* enters the node, and the node builds the prompt and calls the model.    *)
(* A TypeError of _get_prompt ends the run inside the node.                *)
(***************************************************************************)
Enter(r, m, docs) ==
  LET st == InitialState(docs)
      p == GetPrompt(prompt, st)
  IN /\ phase[r] = "Start"
     /\ phase' = [phase EXCEPT ![r] = EntryPoint]
     /\ mode' = [mode EXCEPT ![r] = m]
     /\ input' = [input EXCEPT ![r] = docs]
     /\ state' = [state EXCEPT ![r] = st]
     /\ IF p.kind = "raise"
        THEN /\ error' = [error EXCEPT ![r] = p.error]
             /\ sent' = sent
        ELSE /\ sent' = [sent EXCEPT ![r] = IssueCall(@, p.value)]
             /\ error' = error
     /\ UNCHANGED <<prompt, model, update, output, buildState, built>>

InvokeBlocking(r) ==
  \E docs \in DocListsUpTo(MaxRunDocs, RunContents) : Enter(r, "blocking", docs)

InvokeSuspending(r) ==
  \E docs \in DocListsUpTo(MaxRunDocs, RunContents) : Enter(r, "suspending", docs)

\* The run is inside the node, waiting for the model's answer.
Awaiting(r) ==
  /\ phase[r] = "Summarizing"
  /\ error[r] = "none"
  /\ sent[r] # <<>>

(***************************************************************************)
(* The model call ends: the node returns its update or raises; on a        *)
(* return the engine merges the update, follows the edge and projects the  *)
(* output.                                                                 *)
(***************************************************************************)
Finish(r, res) ==
  /\ IF res.kind = "raise"
     THEN /\ error' = [error EXCEPT ![r] = res.error]
          /\ UNCHANGED <<phase, state, update, output>>
     ELSE /\ update' = [update EXCEPT ![r] = res.value]
          /\ state' = ApplyUpdate(state, r, res.value)
          /\ phase' = [phase EXCEPT ![r] = EdgeFrom(phase[r])]
          /\ output' = [output EXCEPT ![r] = OutputView(state'[r])]
          /\ error' = error
  /\ UNCHANGED <<prompt, model, mode, input, sent, buildState, built>>

ReturnBlocking(r) ==
  /\ Awaiting(r)
  /\ mode[r] = "blocking"
  /\ Finish(r, SummarizeNodeFinish(ModelInvoke(model, sent[r][Len(sent[r])])))

ReturnSuspending(r) ==
  /\ Awaiting(r)
  /\ mode[r] = "suspending"
  /\ Finish(r, ASummarizeNodeFinish(ModelAInvoke(model, sent[r][Len(sent[r])])))

Next ==
  \E r \in Runs :
    \/ InvokeBlocking(r)
    \/ InvokeSuspending(r)
    \/ ReturnBlocking(r)
    \/ ReturnSuspending(r)

Spec == Init /\ [][Next]_vars

(***************************************************************************)
(* The prompt builder on its own: _get_prompt applied to a state.          *)
(***************************************************************************)
InitBuilder ==
  /\ prompt \in Prompts
  /\ model = "fixed"
  /\ InitRuns
  /\ buildState \in {InitialState(d) : d \in DocListsUpTo(MaxDocs, DocContents)}
  /\ built = NotBuilt

Build ==
  /\ built = NotBuilt
  /\ built' = GetPrompt(prompt, buildState)
  /\ UNCHANGED <<prompt, model, buildState>>
  /\ UNCHANGED runVars

NextBuilder == Build

BuilderSpec == InitBuilder /\ [][NextBuilder]_vars


(***************************************************************************)
(* Vocabulary of the properties.                                           *)
(***************************************************************************)
Started(r) == phase[r] # "Start"
Finished(r) == phase[r] = "Done" \/ error[r] # "none"
ValidPrompt == prompt.type \in {"NoneType", "str"}
HasSummary(r) == "summary" \in DOMAIN state[r]

\* The message dicts of a message sequence, one level of nesting opened.
RECURSIVE Flatten(_)
Flatten(msgs) ==
  IF Len(msgs) = 0 THEN <<>>
  ELSE (IF Head(msgs).type = "list" THEN Head(msgs).items ELSE <<Head(msgs)>>)
       \o Flatten(Tail(msgs))

\* The contents of the system-role messages of a message sequence, in order.
SystemContents(msgs) ==
  LET flat == Flatten(msgs) IN
  SelectSeq(flat, LAMBDA x : x.role = "system")

RECURSIVE SumLen(_, _)
SumLen(docs, n) ==
  IF n = 0 THEN 0 ELSE SumLen(docs, n - 1) + Len(docs[n].page_content)

\* The number of positions of c at which the sequence s starts.
Occurrences(s, c) ==
  Cardinality({i \in 1..(Len(c) - Len(s) + 1) :
                 SubSeq(c, i, i + Len(s) - 1) = s})

\* Where document i starts in the joined text, counted from 0.
Offset(docs, i) == SumLen(docs, i - 1) + (i - 1) * Len(Sep)

\* c is docs[1] + Sep + docs[2] + ... + docs[n], stated position by position.
JoinedAsClaimed(docs, c) ==
  LET n == Len(docs) IN
  /\ Len(c) = SumLen(docs, n) + (IF n = 0 THEN 0 ELSE (n - 1) * Len(Sep))
  /\ \A i \in 1..n :
       SubSeq(c, Offset(docs, i) + 1,
              Offset(docs, i) + Len(docs[i].page_content))
         = docs[i].page_content
  /\ \A i \in 1..(n - 1) :
       SubSeq(c, Offset(docs, i) + Len(docs[i].page_content) + 1,
              Offset(docs, i + 1)) = Sep
  /\ (n = 0 => c = <<>>)
  /\ (n = 1 => c = docs[1].page_content)
  /\ ((\A i \in 1..n : Occurrences(<<"-">>, docs[i].page_content) = 0)
        => Occurrences(Sep, c) = (IF n >= 2 THEN n - 1 ELSE 0))

\* What the model answers to the call run r made.
Answer(r) == ModelRespond(model, sent[r][1])
AnswerHasText(r) ==
  IF Answer(r).kind = "return" THEN Answer(r).value.type = "AIMessage"
  ELSE FALSE

(***************************************************************************)
(* C1.  Every message sequence passed to the model, by a blocking or a     *)
(* suspending run, is exactly two message records: one with the role       *)
(* system followed by one with the role user, neither a nested sequence.   *)
(***************************************************************************)
C1_TwoFlatMessages ==
  \A r \in Runs : \A i \in 1..Len(sent[r]) :
    LET msgs == sent[r][i] IN
    /\ Len(msgs) = 2
    /\ msgs[1].type = "dict"
    /\ msgs[1].role = "system"
    /\ msgs[2].type = "dict"
    /\ msgs[2].role = "user"

(***************************************************************************)
(* C2.  For a valid prompt the builder returns, for every document list    *)
(* (the empty one included), a user message whose content is the           *)
(* documents' contents in order with the separator between consecutive     *)
(* documents and nowhere else: n-1 separators for n >= 2, the content      *)
(* itself for one document, the empty string for none.                     *)
(***************************************************************************)
C2_UserContentIsJoin ==
  (built # NotBuilt /\ ValidPrompt) =>
    /\ built.kind = "return"
    /\ Len(built.value) = 2
    /\ built.value[2].type = "dict"
    /\ built.value[2].role = "user"
    /\ JoinedAsClaimed(buildState.documents, built.value[2].content)

C2_Witness ==
  /\ built # NotBuilt
  /\ built.kind = "return"
  /\ Len(buildState.documents) = 3
  /\ buildState.documents[1].page_content = <<"A">>
  /\ buildState.documents[2].page_content = <<>>
  /\ buildState.documents[3].page_content = <<"B">>

(***************************************************************************)
(* C3.  The built prompt holds one system message, and its content is the  *)
(* default instruction when the configured prompt is absent and the        *)
(* configured string itself (the empty string included) otherwise,         *)
(* whatever the documents are.                                             *)
(***************************************************************************)
C3_SystemContentFromPromptOnly ==
  (built # NotBuilt /\ ValidPrompt) =>
    /\ built.kind = "return"
    /\ Len(SystemContents(built.value)) = 1
    /\ SystemContents(built.value)[1].content =
         (IF prompt.type = "NoneType" THEN DefaultSystemText ELSE prompt.val)

C3_Witness ==
  /\ built # NotBuilt
  /\ built.kind = "return"
  /\ prompt = PyStr(<<>>)
  /\ Len(buildState.documents) = 2
  /\ buildState.documents[1].page_content = <<"B">>

(***************************************************************************)
(* C4.  With a configured prompt that is neither absent nor a string,      *)
(* every invoked run, blocking or suspending, has failed with the          *)
(* TypeError without calling the model, and has no update, no summary and  *)
(* no output.                                                              *)
(***************************************************************************)
C4_InvalidPromptFailsBeforeModelCall ==
  ~ValidPrompt =>
    \A r \in Runs :
      /\ sent[r] = <<>>
      /\ phase[r] # "Done"
      /\ ~HasSummary(r)
      /\ update[r] = EmptyDict
      /\ output[r] = EmptyDict
      /\ (Started(r) => error[r] = "TypeError")

C4_Witness ==
  /\ ~ValidPrompt
  /\ \E r1, r2 \in Runs :
       /\ mode[r1] = "blocking" /\ error[r1] = "TypeError"
       /\ mode[r2] = "suspending" /\ error[r2] = "TypeError"
       /\ input[r1] = <<>> /\ Len(input[r2]) = 1

(***************************************************************************)
(* C5.  A blocking and a suspending run invoked with the same documents    *)
(* pass the same message sequence to the model and, once both have ended,  *)
(* have the same update, the same state, the same output and the same      *)
(* error.                                                                  *)
(***************************************************************************)
C5_BlockingSuspendingEquivalent ==
  \A r1, r2 \in Runs :
    (mode[r1] = "blocking" /\ mode[r2] = "suspending" /\ input[r1] = input[r2])
      => /\ sent[r1] = sent[r2]
         /\ (Finished(r1) /\ Finished(r2)) =>
              /\ update[r1] = update[r2]
              /\ state[r1] = state[r2]
              /\ output[r1] = output[r2]
              /\ error[r1] = error[r2]
              /\ phase[r1] = phase[r2]

C5_Witness ==
  \E r1, r2 \in Runs :
    /\ mode[r1] = "blocking" /\ mode[r2] = "suspending"
    /\ input[r1] = input[r2] /\ Len(input[r1]) = 1
    /\ phase[r1] = "Done" /\ phase[r2] = "Done"
    /\ model = "echo"

(***************************************************************************)
(* C6.  When the model has answered a run's call with a response whose     *)
(* text is S, the run is done, the node's update is the dict with the one  *)
(* key summary and the value S, the documents of the state are those the   *)
(* run was invoked with, and the run's output is {summary: S}.             *)
(***************************************************************************)
C6_UpdateIsExactlySummary ==
  \A r \in Runs :
    /\ (sent[r] # <<>> /\ Finished(r) /\ AnswerHasText(r)) =>
         /\ phase[r] = "Done"
         /\ DOMAIN update[r] = {"summary"}
         /\ update[r] = [summary |-> Answer(r).value.text]
         /\ state[r] = [documents |-> input[r],
                        summary |-> Answer(r).value.text]
         /\ output[r] = [summary |-> Answer(r).value.text]
    /\ (phase[r] = "Done" /\ model = "fixed") =>
         output[r] = [summary |-> <<"S">>]

C6_Witness ==
  \E r \in Runs :
    /\ phase[r] = "Done"
    /\ input[r] = <<>>
    /\ prompt = PyNone
    /\ output[r] = [summary |-> <<"S">>]

(***************************************************************************)
(* C7.  When the model's call raises, or its response has no text, the     *)
(* run ends with that very error: it never reaches Done, has no update,    *)
(* no summary and no output, and made its one call only.                   *)
(***************************************************************************)
C7_FailurePropagatesUnmodified ==
  \A r \in Runs :
    (sent[r] # <<>> /\ ~AnswerHasText(r)) =>
      /\ phase[r] # "Done"
      /\ ~HasSummary(r)
      /\ update[r] = EmptyDict
      /\ output[r] = EmptyDict
      /\ Len(sent[r]) = 1
      /\ error[r] \in {"none", IF Answer(r).kind = "raise"
                                THEN Answer(r).error ELSE "AttributeError"}

C7_Witness ==
  \E r1, r2 \in Runs :
    /\ mode[r1] = "blocking" /\ mode[r2] = "suspending"
    /\ error[r1] = "ModelInvocationError"
    /\ error[r2] = "ModelInvocationError"

(***************************************************************************)
(* C8.  With a valid configured prompt, every invoked run has made exactly *)
(* one call to the model, before and after the call ended and whether it   *)
(* failed or returned; a run not invoked has made none; and the documents  *)
(* of the run's state are those it was invoked with.                       *)
(***************************************************************************)
C8_ExactlyOneModelCall ==
  ValidPrompt =>
    \A r \in Runs :
      /\ (Started(r) => Len(sent[r]) = 1 /\ state[r].documents = input[r])
      /\ (~Started(r) => sent[r] = <<>>)

C8_Witness ==
  \E r1, r2 \in Runs :
    /\ error[r1] = "NotImplementedError" /\ Len(sent[r1]) = 1
    /\ phase[r2] = "Summarizing" /\ error[r2] = "none" /\ Len(sent[r2]) = 1

\* What one step may do to run r (used by C9).
C9_PhaseStep(r) ==
  /\ \/ phase'[r] = phase[r]
     \/ phase[r] = "Start" /\ phase'[r] = "Summarizing"
     \/ phase[r] = "Summarizing" /\ phase'[r] = "Done"
  /\ (phase[r] = "Done" => state'[r] = state[r])
  /\ (phase[r] = "Summarizing" /\ state'[r] # state[r]) =>
       /\ phase'[r] = "Done"
       /\ ~HasSummary(r)
       /\ DOMAIN state'[r] = {"documents", "summary"}
       /\ state'[r].documents = state[r].documents

(***************************************************************************)
(* C9.  A run is in Start, Summarizing or Done; it only moves from Start   *)
(* to Summarizing and from Summarizing to Done; its state has the summary  *)
(* exactly when it is Done; the summary is written on the move to Done     *)
(* and the state does not change afterwards.                               *)
(***************************************************************************)
C9_PhasesAndSingleMutation ==
  /\ [](\A r \in Runs :
          /\ phase[r] \in {"Start", "Summarizing", "Done"}
          /\ (HasSummary(r) <=> phase[r] = "Done"))
  /\ [][\A r \in Runs : C9_PhaseStep(r)]_vars

C9_Witness ==
  \E r1, r2 \in Runs :
    /\ phase[r1] = "Done" /\ HasSummary(r1)
    /\ phase[r2] = "Summarizing" /\ error[r2] = "none"

\* All that belongs to run r.
RunView(r) ==
  <<phase[r], mode[r], input[r], state[r], sent[r], update[r], error[r],
    output[r]>>

\* Run r's messages and summary come from its own input and call.
C10_OwnData(r) ==
  /\ (Started(r) => state[r].documents = input[r])
  /\ (sent[r] # <<>> =>
        sent[r] = <<GetPrompt(prompt, InitialState(input[r])).value>>)
  /\ (HasSummary(r) =>
        /\ AnswerHasText(r)
        /\ state[r].summary = Answer(r).value.text)

(***************************************************************************)
(* C10.  Runs do not interfere: a step changes one run only and leaves     *)
(* the configured prompt and the model as they are; the messages a run     *)
(* sent are those built from its own documents and the configured prompt;  *)
(* the summary of a run is the text of the answer to its own call.         *)
(***************************************************************************)
C10_RunsDoNotInterfere ==
  /\ [](\A r \in Runs : C10_OwnData(r))
  /\ [][/\ prompt' = prompt
        /\ model' = model
        /\ \A r1, r2 \in Runs :
             (r1 # r2 /\ RunView(r1)' # RunView(r1)) => RunView(r2)' = RunView(r2)
       ]_vars

C10_Witness ==
  \E r1, r2 \in Runs :
    /\ model = "echo"
    /\ phase[r1] = "Done" /\ phase[r2] = "Done"
    /\ mode[r1] = "suspending" /\ mode[r2] = "suspending"
    /\ input[r1] # input[r2]
    /\ state[r1].summary # state[r2].summary

=============================================================================
